---- MODULE Spec2Model ----
(***************************************************************************)
(* A model of porco: the Probability value type (src/src/prob.rs) and the  *)
(* Distribution container with its combinators (src/src/dist.rs).          *)
(*                                                                         *)
(* A Probability magnitude (an f64) is modelled as an exact rational       *)
(* <<n, d>> in lowest terms, extended with the two IEEE-754 values that a  *)
(* division by zero produces: NaN (0/0) and +Inf (x/0, x > 0).  Rounding   *)
(* of f64 is not modelled: all statements are about exact arithmetic.      *)
(*                                                                         *)
(* A Distribution<T> is the sequence of <<outcome, probability>> pairs of  *)
(* its Vec<(T, Probability)>.  Outcomes are small integers (Coin::Heads is *)
(* 1, Coin::Tails is 2), or distributions for a Distribution<Distribution>.*)
(***************************************************************************)
EXTENDS Integers, Sequences, FiniteSets, TLC

VARIABLES
    d,       \* the Distribution value the program currently holds
    nested,  \* TRUE when d is a Distribution<Distribution<T>>
    last,    \* the last operation: [op, prev, arg, out]
    prov,    \* how d was built: "unit", "unit0" or "other"
    ops,     \* number of combinators applied so far
    cstack,  \* call stack of the conversion Probability::from(p)
    carg,    \* the f64 handed to Probability::from
    cpc      \* "idle", "running" or "overflow"

vars == <<d, nested, last, prov, ops, cstack, carg, cpc>>

distVars == <<d, nested, last, prov, ops>>
convVars == <<cstack, carg, cpc>>

----------------------------------------------------------------------------
(* Bounds *)

MaxLen == 3
MaxOps == 3
StackLimit == 12

----------------------------------------------------------------------------
(* Probability: src/src/prob.rs *)

RECURSIVE GCD(_, _)
GCD(a, b) == IF b = 0 THEN a ELSE GCD(b, a % b)

Abs(n) == IF n < 0 THEN -n ELSE n

\* a rational in lowest terms, positive denominator
Rat(n, m) ==
    LET g == GCD(Abs(n), Abs(m))
        s == IF m < 0 THEN -1 ELSE 1
    IN  <<(s * n) \div g, (s * m) \div g>>

NaN == <<0, 0>>
Inf == <<1, 0>>

ZERO == <<0, 1>>
ONE == <<1, 1>>

IsNaN(p) == p = NaN
IsInf(p) == p = Inf
IsFinite(p) == p[2] # 0

\* f64 == on magnitudes (derive PartialEq on Probability): NaN is unequal to itself
PEq(a, b) == ~IsNaN(a) /\ ~IsNaN(b) /\ a = b

\* ops::Add for Probability: Self(self.0 + other.0)
PAdd(a, b) ==
    IF IsNaN(a) \/ IsNaN(b) THEN NaN
    ELSE IF IsInf(a) \/ IsInf(b) THEN Inf
    ELSE Rat(a[1] * b[2] + b[1] * a[2], a[2] * b[2])

\* ops::Mul for Probability: Self(self.0 * other.0)
PMul(a, b) ==
    IF IsNaN(a) \/ IsNaN(b) THEN NaN
    ELSE IF IsInf(a) \/ IsInf(b)
         THEN (IF a = ZERO \/ b = ZERO THEN NaN ELSE Inf)
    ELSE Rat(a[1] * b[1], a[2] * b[2])

\* ops::Div<f64> for Probability: Self(self.0 / other), and f64 / f64
PDiv(a, b) ==
    IF IsNaN(a) \/ IsNaN(b) THEN NaN
    ELSE IF IsInf(a) THEN (IF IsInf(b) THEN NaN ELSE Inf)
    ELSE IF IsInf(b) THEN ZERO
    ELSE IF b = ZERO THEN (IF a = ZERO THEN NaN ELSE Inf)
    ELSE Rat(a[1] * b[2], a[2] * b[1])

----------------------------------------------------------------------------
(* Outcomes and closures handed to the combinators *)

Heads == 1
Tails == 2

Outcomes == {1, 2}

ProbVals == {ZERO, Rat(1, 4), Rat(1, 2), Rat(3, 4)}

\* sequences over S of length at most n
RECURSIVE SeqsUpTo(_, _)
SeqsUpTo(S, n) ==
    IF n = 0 THEN {<< >>}
    ELSE LET shorter == SeqsUpTo(S, n - 1)
         IN  shorter \cup {Append(s, x) : s \in {t \in shorter : Len(t) = n - 1}, x \in S}

----------------------------------------------------------------------------
(* Distribution: src/src/dist.rs *)

\* position of the first pair of vec whose key equals t, 0 when there is none
find(vec, t) ==
    IF \E i \in 1..Len(vec) : vec[i][1] = t
    THEN CHOOSE i \in 1..Len(vec) :
            vec[i][1] = t /\ \A j \in 1..(i - 1) : vec[j][1] # t
    ELSE 0

\* a faulty entry: the occupied slot is taken out by swap_remove and pushed
\* back at the end (what assoc_list.rs's insert_ does)
entry_swap_remove(vec, t, p) ==
    LET i == find(vec, t)
        n == Len(vec)
    IN  IF i = 0 THEN Append(vec, <<t, p>>)
        ELSE Append([k \in 1..(n - 1) |-> IF k = i THEN vec[n] ELSE vec[k]],
                    <<t, PAdd(vec[i][2], p)>>)

\* vec.entry(t).and_modify(|e| *e = *e + p).or_insert(p)
entry(vec, t, p) ==
    LET i == find(vec, t)
    IN  IF i = 0 THEN Append(vec, <<t, p>>)
        ELSE [vec EXCEPT ![i] = <<t, PAdd(vec[i][2], p)>>]

RECURSIVE fold(_, _)
fold(items, vec) ==
    IF items = << >> THEN vec
    ELSE fold(Tail(items), entry(vec, Head(items)[1], Head(items)[2]))

regroup(self) == fold(self, << >>)

\* a faulty new: the pairs are collected and not regrouped
new_unmerged(iter) == iter

new(iter) == regroup(iter)

from_iter(iter) == new(iter)

always(t) == <<<<t, ONE>>>>

\* a faulty uniform: the probability is 1 / (n + 1)
uniform_one_too_many(iter) ==
    LET outcomes == iter
        p == PDiv(ONE, Rat(Len(outcomes) + 1, 1))
    IN  from_iter([i \in 1..Len(outcomes) |-> <<outcomes[i], p>>])

uniform(iter) ==
    LET outcomes == iter
        p == PDiv(ONE, Rat(Len(outcomes), 1))
    IN  from_iter([i \in 1..Len(outcomes) |-> <<outcomes[i], p>>])

\* the closures: F: Fn(T) -> U and F: Fn(T) -> Distribution<U>
Apply(f, t) ==
    CASE f = "identity" -> t
      [] f = "is_three" -> IF t = 3 THEN Heads ELSE Tails
      [] f = "heads_one" -> IF t = Heads THEN 1 ELSE 0
      [] f = "reflip_if_tails" ->
            IF t = Heads THEN always(Heads) ELSE uniform(<<Heads, Tails>>)
      [] f = "nothing" -> uniform(<< >>)
      [] f = "half" -> new(<<<<t, Rat(1, 2)>>>>)

MapFuns == {"is_three", "heads_one"}
DistFuns == {"reflip_if_tails", "nothing", "half"}

map(self, f) ==
    from_iter([i \in 1..Len(self) |-> <<Apply(f, self[i][1]), self[i][2]>>])

\* a faulty weighting: the probability p of the outer outcome is dropped
scale_unweighted(dist, p) == dist

\* dist.0.into_iter().map(move |(t, p2)| (t, p * p2))
scale(dist, p) == [i \in 1..Len(dist) |-> <<dist[i][1], PMul(p, dist[i][2])>>]

RECURSIVE flat_map(_, _)
flat_map(self, f) ==
    IF self = << >> THEN << >>
    ELSE scale(Apply(f, Head(self)[1]), Head(self)[2]) \o flat_map(Tail(self), f)

and_then(self, f) == from_iter(flat_map(self, f))

\* a faulty flatten: the inner distributions are concatenated unweighted
RECURSIVE concat(_)
concat(self) == IF self = << >> THEN << >> ELSE Head(self)[1] \o concat(Tail(self))

flatten_unweighted(self) == from_iter(concat(self))

flatten(self) == and_then(self, "identity")

\* the predicates: F: Fn(&T) -> bool
Holds(condition, t) ==
    CASE condition = "lt3" -> t < 3
      [] condition = "eq1" -> t = 1
      [] condition = "gt2" -> t > 2

Conditions == {"lt3", "eq1", "gt2"}

RECURSIVE sum(_)
sum(self) == IF self = << >> THEN ZERO ELSE PAdd(sum(SubSeq(self, 1, Len(self) - 1)), self[Len(self)][2])

\* a faulty normalize: the probabilities are left as they are
normalize_unscaled(self) == from_iter(self)

normalize(self) ==
    LET factor == sum(self)
    IN  from_iter([i \in 1..Len(self) |-> <<self[i][1], PDiv(self[i][2], factor)>>])

filter(self, condition) == SelectSeq(self, LAMBDA e : Holds(condition, e[1]))

given(self, condition) == normalize(from_iter(filter(self, condition)))

\* a faulty pmf: an absent outcome gets Probability::ONE
pmf_default_one(self, t) ==
    LET i == find(self, t)
    IN  IF i = 0 THEN ONE ELSE self[i][2]

pmf(self, t) ==
    LET i == find(self, t)
    IN  IF i = 0 THEN ZERO ELSE self[i][2]

cartesian_product(a, b) ==
    [k \in 1..(Len(a) * Len(b)) |->
        <<a[((k - 1) \div Len(b)) + 1], b[((k - 1) % Len(b)) + 1]>>]

\* a faulty convolve: the probabilities of a pair are added
convolve_added(self, other) ==
    LET prod == cartesian_product(self, other)
    IN  from_iter([k \in 1..Len(prod) |->
            <<prod[k][1][1] + prod[k][2][1], PAdd(prod[k][1][2], prod[k][2][2])>>])

convolve(self, other) ==
    LET prod == cartesian_product(self, other)
    IN  from_iter([k \in 1..Len(prod) |->
            <<prod[k][1][1] + prod[k][2][1], PMul(prod[k][1][2], prod[k][2][2])>>])

----------------------------------------------------------------------------
(* The other conversions into a Distribution: dist.rs, lines 319-358 *)

\* FromIterator<(T, f64)>: each f64 is wrapped by the tuple constructor
\* Probability(p), which checks nothing
from_iter_f64(iter) ==
    from_iter([i \in 1..Len(iter) |-> <<iter[i][1], iter[i][2]>>])

\* From<Vec<(T, Probability)>>
from_vec(v) == from_iter(v)

\* From<[(T, Probability); N]>
from_array(s) == from_iter(s)

Conversions == {"from_iter", "from_iter_f64", "from_vec", "from_array"}

convert(via, input) ==
    CASE via = "from_iter" -> from_iter(input)
      [] via = "from_iter_f64" -> from_iter_f64(input)
      [] via = "from_vec" -> from_vec(input)
      [] via = "from_array" -> from_array(input)

----------------------------------------------------------------------------
(* Inputs *)

Pairs == Outcomes \X ProbVals

PairSeqs == SeqsUpTo(Pairs, MaxLen)

OutcomeSeqs == SeqsUpTo(Outcomes, MaxLen)

\* the second operand of convolve
Others == {uniform(<<1, 2>>), always(1), new(<< >>)}

\* the outcomes pmf is asked about
Queries == {1, 2, 3}

\* the reals handed to Probability::from
ConvInputs ==
    { Rat(-1, 1), Rat(-1, 2), ZERO, Rat(1, 4), Rat(1, 2), Rat(3, 4), ONE,
      Rat(5, 4), Rat(3, 2), Rat(2, 1) }

----------------------------------------------------------------------------
(* How the current distribution was built (history, for mass conservation):*)
(* "unit": by new from pairs summing to 1, always, or uniform over a       *)
(* non-empty collection, then map / and_then / flatten with closures that  *)
(* return such distributions; "unit0": the same, but a uniform over an     *)
(* empty collection is among the constructions; "other": anything else.    *)

\* exact sum of the probabilities of a sequence of pairs
RECURSIVE Total(_)
Total(s) == IF s = << >> THEN ZERO ELSE PAdd(s[1][2], Total(Tail(s)))

FunProv(f) ==
    CASE f = "reflip_if_tails" -> "unit"
      [] f = "nothing" -> "unit0"
      [] OTHER -> "other"

Join(a, b) ==
    IF a = "other" \/ b = "other" THEN "other"
    ELSE IF a = "unit0" \/ b = "unit0" THEN "unit0"
    ELSE "unit"

----------------------------------------------------------------------------
(* State machine of the distribution algebra *)

Init ==
    /\ d = << >>
    /\ nested = FALSE
    /\ last = [op |-> "init", prev |-> << >>, arg |-> << >>, out |-> << >>]
    /\ prov = "other"
    /\ ops = 0
    /\ cstack = << >>
    /\ carg = ZERO
    /\ cpc = "idle"

\* nothing has been constructed yet
Fresh == last.op = "init"

\* the program holds a Distribution<T>
Live == last.op # "init" /\ ~nested /\ ops < MaxOps

New ==
    /\ Fresh
    /\ \E input \in PairSeqs :
        /\ d' = new(input)
        /\ last' = [op |-> "new", prev |-> << >>, arg |-> input, out |-> d']
        /\ prov' = IF Total(input) = ONE THEN "unit" ELSE "other"
    /\ UNCHANGED <<nested, ops, convVars>>

From ==
    /\ Fresh
    /\ \E via \in Conversions, input \in PairSeqs :
        /\ d' = convert(via, input)
        /\ last' = [op |-> via, prev |-> << >>, arg |-> input, out |-> d']
    /\ prov' = "other"
    /\ UNCHANGED <<nested, ops, convVars>>

Always ==
    /\ Fresh
    /\ \E t \in Outcomes :
        /\ d' = always(t)
        /\ last' = [op |-> "always", prev |-> << >>, arg |-> t, out |-> d']
    /\ prov' = "unit"
    /\ UNCHANGED <<nested, ops, convVars>>

Uniform ==
    /\ Fresh
    /\ \E outcomes \in OutcomeSeqs :
        /\ d' = uniform(outcomes)
        /\ last' = [op |-> "uniform", prev |-> << >>, arg |-> outcomes, out |-> d']
        /\ prov' = IF outcomes = << >> THEN "unit0" ELSE "unit"
    /\ UNCHANGED <<nested, ops, convVars>>

Map ==
    /\ Live
    /\ \E f \in MapFuns :
        /\ d' = map(d, f)
        /\ last' = [op |-> "map", prev |-> d, arg |-> f, out |-> d']
    /\ ops' = ops + 1
    /\ UNCHANGED <<nested, prov, convVars>>

\* map with a closure that returns distributions
MapD ==
    /\ Live
    /\ \E f \in DistFuns :
        /\ d' = map(d, f)
        /\ last' = [op |-> "map", prev |-> d, arg |-> f, out |-> d']
        /\ prov' = Join(prov, FunProv(f))
    /\ nested' = TRUE
    /\ ops' = ops + 1
    /\ UNCHANGED convVars

\* last.prev and last.arg keep the operands of the map that built d
Flatten ==
    /\ nested
    /\ d' = flatten(d)
    /\ last' = [op |-> "flatten", prev |-> last.prev, arg |-> last.arg, out |-> d']
    /\ nested' = FALSE
    /\ ops' = ops + 1
    /\ UNCHANGED <<prov, convVars>>

AndThen ==
    /\ Live
    /\ \E f \in DistFuns :
        /\ d' = and_then(d, f)
        /\ last' = [op |-> "and_then", prev |-> d, arg |-> f, out |-> d']
        /\ prov' = Join(prov, FunProv(f))
    /\ ops' = ops + 1
    /\ UNCHANGED <<nested, convVars>>

Given ==
    /\ Live
    /\ \E condition \in Conditions :
        /\ d' = given(d, condition)
        /\ last' = [op |-> "given", prev |-> d, arg |-> condition, out |-> d']
    /\ prov' = "other"
    /\ ops' = ops + 1
    /\ UNCHANGED <<nested, convVars>>

Convolve ==
    /\ Live
    /\ \E other \in Others :
        /\ d' = convolve(d, other)
        /\ last' = [op |-> "convolve", prev |-> d, arg |-> other, out |-> d']
    /\ prov' = "other"
    /\ ops' = ops + 1
    /\ UNCHANGED <<nested, convVars>>

Pmf ==
    /\ Live
    /\ \E t \in Queries :
        last' = [op |-> "pmf", prev |-> d, arg |-> t, out |-> pmf(d, t)]
    /\ ops' = ops + 1
    /\ UNCHANGED <<d, nested, prov, convVars>>

Next ==
    \/ New
    \/ From
    \/ Always
    \/ Uniform
    \/ Map
    \/ MapD
    \/ Flatten
    \/ AndThen
    \/ Given
    \/ Convolve
    \/ Pmf

Spec == Init /\ [][Next]_vars

----------------------------------------------------------------------------
(* Probability::from(p): src/src/prob.rs, lines 20-24.  The crate's own    *)
(* TryFrom<f64> (lines 26-37) is commented out, so Probability::try_from   *)
(* on line 22 is the standard library's blanket impl of TryFrom<U> for T   *)
(* where U: Into<T>, whose body is Ok(U::into(value)); f64::into is the    *)
(* blanket impl of Into<U> for T where U: From<T>, whose body is           *)
(* U::from(self): the very conversion that is being computed.              *)

\* a call: push a frame, or abort the process when the stack is exhausted
Call(frame) ==
    IF Len(cstack) < StackLimit
    THEN cstack' = Append(cstack, frame) /\ cpc' = "running"
    ELSE cstack' = cstack /\ cpc' = "overflow"

Top == cstack[Len(cstack)]

CallFrom ==
    /\ cpc = "idle"
    /\ \E p \in ConvInputs : carg' = p
    /\ Call("from")
    /\ UNCHANGED distVars

\* fn from(p: f64) -> Self { Probability::try_from(p).expect(..) }
FromBody ==
    /\ cpc = "running" /\ Top = "from"
    /\ Call("try_from")
    /\ UNCHANGED <<carg, distVars>>

\* blanket TryFrom: Ok(U::into(value))
TryFromBody ==
    /\ cpc = "running" /\ Top = "try_from"
    /\ Call("into")
    /\ UNCHANGED <<carg, distVars>>

\* blanket Into: U::from(self)
IntoBody ==
    /\ cpc = "running" /\ Top = "into"
    /\ Call("from")
    /\ UNCHANGED <<carg, distVars>>

NextConv ==
    \/ CallFrom
    \/ FromBody
    \/ TryFromBody
    \/ IntoBody

SpecConv == Init /\ [][NextConv]_vars

----------------------------------------------------------------------------
(* Vocabulary of the properties *)

OutcomesOf(self) == {self[i][1] : i \in 1..Len(self)}

Unique(self) ==
    \A i, j \in 1..Len(self) : i # j => self[i][1] # self[j][1]

AllFinite(self) == \A i \in 1..Len(self) : IsFinite(self[i][2])

\* derive(PartialEq) on Distribution<T>: the entry sequences are compared
\* pair by pair, the probabilities by f64 ==
DistEq(a, b) ==
    /\ Len(a) = Len(b)
    /\ \A i \in 1..Len(a) : a[i][1] = b[i][1] /\ PEq(a[i][2], b[i][2])

\* index of the first pair of s with outcome t
FirstIdx(s, t) ==
    CHOOSE k \in 1..Len(s) : s[k][1] = t /\ \A j \in 1..(k - 1) : s[j][1] # t

\* sum of the probabilities of the pairs of s with outcome t
RECURSIVE SumOf(_, _)
SumOf(s, t) ==
    IF s = << >> THEN ZERO
    ELSE LET rest == SumOf(SubSeq(s, 1, Len(s) - 1), t)
             e == s[Len(s)]
         IN  IF e[1] = t THEN PAdd(rest, e[2]) ELSE rest

\* sum of pa * pb over the first k pairs ((a, pa), (b, pb)) of x times y
\* with a + b = s
RECURSIVE PairSum(_, _, _, _)
PairSum(x, y, s, k) ==
    IF k = 0 THEN ZERO
    ELSE LET a == x[((k - 1) \div Len(y)) + 1]
             b == y[((k - 1) % Len(y)) + 1]
             rest == PairSum(x, y, s, k - 1)
         IN  IF a[1] + b[1] = s THEN PAdd(rest, PMul(a[2], b[2])) ELSE rest

\* sum over the first k entries (t, p) of self of p * f(t).pmf(u)
RECURSIVE TotalProb(_, _, _, _)
TotalProb(self, f, u, k) ==
    IF k = 0 THEN ZERO
    ELSE PAdd(TotalProb(self, f, u, k - 1),
              PMul(self[k][2], pmf(Apply(f, self[k][1]), u)))

\* total mass of the outcomes of self that satisfy the condition
RECURSIVE Mass(_, _)
Mass(self, condition) ==
    IF self = << >> THEN ZERO
    ELSE LET rest == Mass(Tail(self), condition)
         IN  IF Holds(condition, self[1][1]) THEN PAdd(self[1][2], rest) ELSE rest

FairCoin == <<<<Heads, Rat(1, 2)>>, <<Tails, Rat(1, 2)>>>>

Asked(self) == OutcomesOf(self) \cup {0, 1, 2, 3, 4, 5}

----------------------------------------------------------------------------
(* C1  Outcome uniqueness: in every distribution a public operation        *)
(* returns, whatever the sequence of operations and whatever the input     *)
(* (repeated outcomes included), no two entries have equal outcomes.  It   *)
(* holds of the inner distributions of a Distribution<Distribution> too.   *)
C1_OutcomeUniqueness ==
    /\ Unique(d)
    /\ nested => \A i \in 1..Len(d) : Unique(d[i][1])

\* new was given an input with a repeated outcome and merged it
C1_Witness ==
    /\ last.op = "new"
    /\ ~Unique(last.arg)
    /\ Len(d) < Len(last.arg)
    /\ Len(d) = 2

(* C3 as stated: a distribution built by new from pairs summing to 1, by   *)
(* always or by uniform over ANY finite collection (the empty one          *)
(* included), then passed through map, and_then and flatten, has total     *)
(* probability 1.                                                          *)
C3_MassConservation_AsStated ==
    (last.op # "init" /\ prov \in {"unit", "unit0"}) => Total(d) = ONE

(* C3 amended: a distribution built by new from pairs summing to 1, by     *)
(* always or by uniform over a NON-EMPTY finite collection, then passed    *)
(* through map, and_then (with closures returning such distributions) and  *)
(* flatten, has total probability 1 in exact arithmetic.                   *)
C3_MassConservation ==
    (last.op # "init" /\ prov = "unit") => Total(d) = ONE

\* a fair coin went through and_then and flatten and still sums to 1
C3_Witness ==
    /\ prov = "unit"
    /\ last.op = "flatten"
    /\ ops = 3
    /\ Len(d) = 2
    /\ Total(d) = ONE

(* C4 as stated: for every distribution d and closure f,                   *)
(* d.and_then(f) == d.map(f).flatten() under the derived equality of       *)
(* Distribution (same entries, same probabilities, same order).            *)
C4_BindFlatten_AsStated ==
    last.op = "flatten" => DistEq(d, and_then(last.prev, last.arg))

(* C4 amended: for every distribution d none of whose probabilities is NaN *)
(* or infinite, and every closure f returning such distributions,          *)
(* d.and_then(f) == d.map(f).flatten() under the derived equality (same    *)
(* entries, same probabilities, same order), in exact arithmetic.          *)
C4_BindFlatten ==
    (last.op = "flatten" /\ AllFinite(last.prev))
        => DistEq(d, and_then(last.prev, last.arg))

\* map merged two outcomes of d whose inner distributions are equal, and
\* flatten produced a non-empty distribution
C4_Witness ==
    /\ last.op = "flatten"
    /\ AllFinite(last.prev)
    /\ Len(map(last.prev, last.arg)) < Len(last.prev)
    /\ Len(d) = 2

(* C5 as stated: for every distribution d and every predicate,             *)
(* d.given(predicate) sums to 1, each outcome o satisfying the predicate   *)
(* has probability d.pmf(o) divided by the total mass of the outcomes      *)
(* satisfying the predicate, and each outcome failing it has pmf 0.        *)
C5_GivenRenormalizes_AsStated ==
    last.op = "given" =>
        LET m == Mass(last.prev, last.arg)
        IN  /\ Total(d) = ONE
            /\ \A o \in Asked(last.prev) :
                IF Holds(last.arg, o)
                THEN pmf(d, o) = PDiv(pmf(last.prev, o), m)
                ELSE pmf(d, o) = ZERO

(* C5 amended: for every distribution d and every predicate whose          *)
(* satisfying outcomes have a total mass that is a non-zero number (not 0, *)
(* not NaN), d.given(predicate) sums to 1, each outcome o satisfying the   *)
(* predicate has probability d.pmf(o) divided by that mass, and each       *)
(* outcome failing it has pmf 0.                                           *)
C5_GivenRenormalizes ==
    LET m == Mass(last.prev, last.arg)
    IN  (last.op = "given" /\ IsFinite(m) /\ m # ZERO) =>
            /\ Total(d) = ONE
            /\ \A o \in Asked(last.prev) :
                IF Holds(last.arg, o)
                THEN pmf(d, o) = PDiv(pmf(last.prev, o), m)
                ELSE pmf(d, o) = ZERO

\* conditioning a biased coin on an outcome of mass 1/4 dropped the other
\* outcome and scaled the retained one to 1
C5_Witness ==
    /\ last.op = "given"
    /\ Mass(last.prev, last.arg) = Rat(1, 4)
    /\ Len(last.prev) = 2
    /\ d = <<<<1, ONE>>>>

(* C6  pmf totality: pmf(o) always returns a Probability: the one stored   *)
(* for o when an entry has an outcome equal to o, and exactly              *)
(* Probability::ZERO when no entry has.                                    *)
C6_PmfTotal ==
    last.op = "pmf" =>
        /\ Len(last.out) = 2
        /\ \A i \in 1..Len(d) : d[i][1] = last.arg => last.out = d[i][2]
        /\ (\A i \in 1..Len(d) : d[i][1] # last.arg) => last.out = ZERO

\* pmf was asked about an outcome absent from a non-empty distribution
C6_Witness ==
    /\ last.op = "pmf"
    /\ Len(d) = 2
    /\ last.arg \notin OutcomesOf(d)
    /\ last.out = ZERO

(* C7  Convolution: x.convolve(y).pmf(s) is the sum over the entry pairs   *)
(* (a, pa) of x and (b, pb) of y with a + b = s of pa * pb; two uniform    *)
(* distributions over {1, 2} give pmf(2) = 0.25, pmf(3) = 0.5 and          *)
(* pmf(4) = 0.25.                                                          *)
C7_Convolution ==
    last.op = "convolve" =>
        LET x == last.prev
            y == last.arg
        IN  /\ \A s \in Asked(d) :
                pmf(d, s) = PairSum(x, y, s, Len(x) * Len(y))
            /\ (x = FairCoin /\ y = FairCoin) =>
                /\ pmf(d, 2) = Rat(1, 4)
                /\ pmf(d, 3) = Rat(1, 2)
                /\ pmf(d, 4) = Rat(1, 4)

\* two two-sided dice were convolved
C7_Witness ==
    /\ last.op = "convolve"
    /\ last.prev = FairCoin
    /\ last.arg = FairCoin
    /\ d = <<<<2, Rat(1, 4)>>, <<3, Rat(1, 2)>>, <<4, Rat(1, 4)>>>>

(* C8 as stated: for every distribution d and closure f,                   *)
(* d.and_then(f).pmf(u) is the sum over the entries (t, p) of d of         *)
(* p * f(t).pmf(u); re-flipping a fair coin on tails gives                 *)
(* pmf(Heads) = 0.75 and pmf(Tails) = 0.25.                                *)
C8_TotalProbability_AsStated ==
    last.op = "and_then" =>
        /\ \A u \in Asked(d) :
            pmf(d, u) = TotalProb(last.prev, last.arg, u, Len(last.prev))
        /\ (last.prev = FairCoin /\ last.arg = "reflip_if_tails") =>
            pmf(d, Heads) = Rat(3, 4) /\ pmf(d, Tails) = Rat(1, 4)

(* C8 amended: for every distribution d none of whose probabilities is NaN *)
(* or infinite, and every closure f, d.and_then(f).pmf(u) is the sum over  *)
(* the entries (t, p) of d of p * f(t).pmf(u); re-flipping a fair coin on  *)
(* tails gives pmf(Heads) = 0.75 and pmf(Tails) = 0.25.                    *)
C8_TotalProbability ==
    (last.op = "and_then" /\ AllFinite(last.prev)) =>
        /\ \A u \in Asked(d) :
            pmf(d, u) = TotalProb(last.prev, last.arg, u, Len(last.prev))
        /\ (last.prev = FairCoin /\ last.arg = "reflip_if_tails") =>
            pmf(d, Heads) = Rat(3, 4) /\ pmf(d, Tails) = Rat(1, 4)

\* a fair coin was re-flipped on tails
C8_Witness ==
    /\ last.op = "and_then"
    /\ last.prev = FairCoin
    /\ last.arg = "reflip_if_tails"
    /\ d = <<<<Heads, Rat(3, 4)>>, <<Tails, Rat(1, 4)>>>>

(* C9  First-occurrence order: the entries of Distribution::new(input)     *)
(* list the distinct outcomes of the input in the order of their first     *)
(* occurrence, each with the sum of the probabilities of the input pairs   *)
(* with that outcome; a later pair with an outcome already seen updates    *)
(* that entry in place and moves no entry.                                 *)
C9_FirstOccurrenceOrder ==
    last.op = "new" =>
        LET in == last.arg
        IN  /\ OutcomesOf(d) = OutcomesOf(in)
            /\ \A i, j \in 1..Len(d) :
                i < j => FirstIdx(in, d[i][1]) < FirstIdx(in, d[j][1])
            /\ \A i \in 1..Len(d) : d[i][2] = SumOf(in, d[i][1])
            /\ \A k \in 1..Len(in) :
                LET a == new(SubSeq(in, 1, k - 1))
                    b == new(SubSeq(in, 1, k))
                IN  IF in[k][1] \in OutcomesOf(a)
                    THEN /\ Len(b) = Len(a)
                         /\ \A i \in 1..Len(a) :
                                /\ b[i][1] = a[i][1]
                                /\ a[i][1] # in[k][1] => b[i] = a[i]
                    ELSE b = Append(a, in[k])

\* the first outcome came again after another one and kept the first place
C9_Witness ==
    /\ last.op = "new"
    /\ last.arg = <<<<1, Rat(1, 4)>>, <<2, Rat(1, 2)>>, <<1, Rat(1, 4)>>>>
    /\ d = <<<<1, Rat(1, 2)>>, <<2, Rat(1, 2)>>>>

----------------------------------------------------------------------------
(* Properties of the conversion Probability::from(p), under SpecConv *)

\* 0.0 <= p <= 1.0
InRange(p) == 0 <= p[1] /\ p[1] <= p[2]

\* the call of Probability::from has ended
Ended == cpc \notin {"idle", "running"}

(* C2  A conversion of a real p with p < 0.0 or p > 1.0 ends in the        *)
(* reported range error (the panic carrying the range message).            *)
C2_RangeChecked ==
    (Ended /\ ~InRange(carg)) => cpc = "panicked"

(* C10  A conversion of a real p with 0.0 <= p <= 1.0 returns, after       *)
(* finitely many steps, the Probability of magnitude p.                    *)
C10_Returns ==
    (Ended /\ InRange(carg)) => cpc = "returned"

====
